---------------------------- MODULE Spec2Model ----------------------------
(***************************************************************************)
(* Model of the DC pump controller firmware                                *)
(* (Pumps/pumpControl.legoControl/arduino/DCPumpController/                *)
(*  DCPumpControllerNumPad.ino).                                           *)
(*                                                                         *)
(* The firmware is one cooperative loop().  One action of this module is   *)
(* one iteration of loop(): the auto-stop block (lines 201-223) followed   *)
(* by the handling of at most one serial line (lines 244-427).  The serial *)
(* handling is translated as it is written in the source file, where this  *)
(* revision keeps it inside a block comment.                               *)
(*                                                                         *)
(* Memory is modelled at the level the code addresses it:                  *)
(*  - motorStatus is declared int[nShields][nMotorsPerShield][1] and is    *)
(*    indexed with a third index of 0 (speed) and 1 (state).  It is a flat *)
(*    run of 16 bit words; word (i*nMotorsPerShield + j) + k is what       *)
(*    motorStatus[i][j][k] addresses, inside the array or past its end.    *)
(*  - the EEPROM is an array of bytes; EEPROM.put/get copy sizeof(object)  *)
(*    bytes at the given byte address.                                     *)
(***************************************************************************)
EXTENDS Integers, Sequences, FiniteSets, TLC

VARIABLES
    motorStatus,   \* words at &motorStatus[0][0][0] and the words that follow
    eeprom,        \* EEPROM bytes
    motorRun,      \* what each Adafruit_DCMotor was last told by run()
    motorSpeed,    \* what each Adafruit_DCMotor was last told by setSpeed()
    startTime,     \* unsigned long startTime
    targetTime,    \* unsigned long targetTime
    timeCounter,   \* boolean timeCounter
    floatVar,      \* floats at &floatVar[0]: rate, diameter, and the float that follows
    flowStatus,    \* ints at &flowStatus[0]: unit, direction, and the int that follows
    volFloat,      \* int volFloat: the volume in hundredths
    InfWith,       \* bool InfWith
    now,           \* millis() as read by the last iteration of loop()
    wild,          \* a store or a call went through an address outside the modelled memory
    autoStop,      \* the targetTime the auto-stop block of the last iteration ran out at, -1 if it did not
    printVal,      \* the bytes at and around the edit buffer LCDinput is given
    decimalPos,    \* int decimalPos of the Set screen
    printInt,      \* int rateInt / VolInt of the Set screen
    cursorPos,     \* int cursorPos of the Set screen
    sigFig,        \* the sigFig the Set screen passes to LCDinput
    ui,            \* where the program is: in loop() or in the while loop of MenuUI
    MenuChoice,    \* int MenuChoice of MenuUI
    called         \* the Set screen MenuUI has called since it was entered

editVars == <<printVal, decimalPos, printInt, cursorPos, sigFig>>

uiVars == <<ui, MenuChoice, called>>

vars == <<motorStatus, eeprom, motorRun, motorSpeed, startTime, targetTime,
          timeCounter, floatVar, flowStatus, volFloat, InfWith, now, wild, autoStop,
          printVal, decimalPos, printInt, cursorPos, sigFig, ui, MenuChoice, called>>

----------------------------------------------------------------------------
(* Program constants *)

nShields == 1
nMotorsPerShield == 2
maxMessageLength == 9
eeAddress == 0
\* the third dimension motorStatus is declared with
statusFields == 1

(* Bounds of the model *)

\* words modelled past the end of motorStatus
WordsPast == 2
\* loop() is followed until millis() passes this value
MaxNow == 2000
\* the millisecond steps between two iterations of loop()
DtSet == {0, 999, 1000}

----------------------------------------------------------------------------
(* Characters are their ASCII codes: the code does arithmetic on them. *)

Code(c) ==
    CASE c = "0" -> 48 [] c = "1" -> 49 [] c = "2" -> 50 [] c = "3" -> 51
      [] c = "4" -> 52 [] c = "5" -> 53 [] c = "6" -> 54 [] c = "7" -> 55
      [] c = "8" -> 56 [] c = "9" -> 57 [] c = "*" -> 42 [] c = "#" -> 35
      [] c = "." -> 46 [] c = "A" -> 65 [] c = "B" -> 66 [] c = "C" -> 67
      [] c = "D" -> 68 [] c = "a" -> 97 [] c = "g" -> 103 [] c = "p" -> 112
      [] c = "r" -> 114 [] c = "s" -> 115 [] c = "x" -> 120 [] c = "?" -> 63

Str(t) == [i \in 1..Len(t) |-> Code(t[i])]

isDigit(c) == c >= 48 /\ c <= 57

\* conversion to byte (unsigned 8 bit)
Byte(x) == x % 256

\* conversion to int (signed 16 bit on the AVR)
Int16(x) == LET u == x % 65536 IN IF u >= 32768 THEN u - 65536 ELSE u

\* the two bytes of an int, low byte first
IntBytes(x) == LET u == x % 65536 IN <<u % 256, u \div 256>>

\* the int held by two bytes, low byte first
BytesInt(lo, hi) == Int16(lo + 256 * hi)

----------------------------------------------------------------------------
(* motorStatus and the motor objects *)

\* words the declaration int motorStatus[nShields][nMotorsPerShield][1] owns
MsWords == nShields * nMotorsPerShield * statusFields

\* the word motorStatus[i][j][k] addresses
Idx(i, j, k) == (i * nMotorsPerShield + j) * statusFields + k

Window == 0 .. (MsWords + WordsPast - 1)

Channels == 0 .. (nShields * nMotorsPerShield - 1)
Shield(n) == n \div nMotorsPerShield
Motor(n) == n % nMotorsPerShield

\* motorStatus[i][j][0], the speed, and motorStatus[i][j][1], the state, of motor n
Duty(ms, n) == ms[Idx(Shield(n), Motor(n), 0)]
RunState(ms, n) == ms[Idx(Shield(n), Motor(n), 1)]

\* motorStatus[i][j][k] = v
Store(s, i, j, k, v) ==
    IF Idx(i, j, k) \in Window
    THEN [s EXCEPT !.motorStatus[Idx(i, j, k)] = Int16(v)]
    ELSE [s EXCEPT !.wild = TRUE]

\* EEPROM.put(addr, object) for an object of the given bytes
PutBytes(ee, addr, bytes) ==
    [a \in DOMAIN ee |->
        IF a >= addr /\ a < addr + Len(bytes) THEN bytes[a - addr + 1] ELSE ee[a]]

RECURSIVE WordBytes(_, _, _)
WordBytes(ms, from, n) ==
    IF n = 0 THEN <<>> ELSE IntBytes(ms[from]) \o WordBytes(ms, from + 1, n - 1)

\* EEPROM.put(eeAddress, motorStatus): sizeof(motorStatus) bytes
PutMotorStatus(s) ==
    [s EXCEPT !.eeprom = PutBytes(@, eeAddress, WordBytes(s.motorStatus, 0, MsWords))]

\* motor[i][j]->run(cmd): motor is declared [nShields][nMotorsPerShield]
Run(s, i, j, cmd) ==
    IF i * nMotorsPerShield + j \in Channels
    THEN [s EXCEPT !.motorRun[i * nMotorsPerShield + j] = cmd]
    ELSE [s EXCEPT !.wild = TRUE]

\* motor[i][j]->setSpeed(v): the parameter is a uint8_t
SetSpeed(s, i, j, v) ==
    IF i * nMotorsPerShield + j \in Channels
    THEN [s EXCEPT !.motorSpeed[i * nMotorsPerShield + j] = Byte(v)]
    ELSE [s EXCEPT !.wild = TRUE]

----------------------------------------------------------------------------
(* The state loop() works on, as one record, so that its statements compose *)

Cur ==
    [motorStatus |-> motorStatus, eeprom |-> eeprom, motorRun |-> motorRun,
     motorSpeed |-> motorSpeed, startTime |-> startTime, targetTime |-> targetTime,
     timeCounter |-> timeCounter, floatVar |-> floatVar,
     flowStatus |-> flowStatus, volFloat |-> volFloat, InfWith |-> InfWith,
     wild |-> wild, autoStop |-> autoStop]

Assign(s) ==
    /\ motorStatus' = s.motorStatus
    /\ eeprom' = s.eeprom
    /\ motorRun' = s.motorRun
    /\ motorSpeed' = s.motorSpeed
    /\ startTime' = s.startTime
    /\ targetTime' = s.targetTime
    /\ timeCounter' = s.timeCounter
    /\ floatVar' = s.floatVar
    /\ flowStatus' = s.flowStatus
    /\ volFloat' = s.volFloat
    /\ InfWith' = s.InfWith
    /\ wild' = s.wild
    /\ autoStop' = s.autoStop

Commit(s) == Assign(s) /\ UNCHANGED editVars /\ UNCHANGED uiVars

----------------------------------------------------------------------------
(* Floats are their four bytes (IEEE 754 single, low byte first), which is *)
(* what EEPROM.put and EEPROM.get copy.  F32 gives the bytes of the values *)
(* the model computes with, named by the value in thousandths.             *)

FloatNames == {0, 1000, 5000, 10000, 14500, 19130, 27855, 37000, 100000, 250000}

F32(m) ==
    CASE m = 0 -> <<0, 0, 0, 0>>
      [] m = 1000 -> <<0, 0, 128, 63>>
      [] m = 5000 -> <<0, 0, 160, 64>>
      [] m = 10000 -> <<0, 0, 32, 65>>
      [] m = 14500 -> <<0, 0, 104, 65>>
      [] m = 19130 -> <<61, 10, 153, 65>>
      [] m = 27855 -> <<10, 215, 222, 65>>
      [] m = 37000 -> <<0, 0, 20, 66>>
      [] m = 100000 -> <<0, 0, 200, 66>>
      [] m = 250000 -> <<0, 0, 122, 67>>

\* f != NULL for a float f: NULL is 0, and a NaN differs from everything
FloatNonZero(f) == ~(f[1] = 0 /\ f[2] = 0 /\ f[3] = 0 /\ f[4] \in {0, 128})

\* the value, in thousandths, of a float the program computes with
Milli(f) == IF FloatNonZero(f) THEN CHOOSE m \in FloatNames : F32(m) = f ELSE 0

\* addresses the calibration records are put at
floatVarAddr == 1
flowStatusAddr == 2
volFloatAddr == 3

\* declared lengths of floatVar and flowStatus
floatVarLen == 2
flowStatusLen == 2

\* the last EEPROM byte the program reads or writes
EeTop == floatVarAddr + 4 * floatVarLen - 1

FloatAt(ee, a) == <<ee[a], ee[a + 1], ee[a + 2], ee[a + 3]>>
IntAt(ee, a) == BytesInt(ee[a], ee[a + 1])

\* EEPROM.put(1, floatVar): sizeof(floatVar) = 2 floats
PutFloatVar(s) ==
    [s EXCEPT !.eeprom = PutBytes(@, floatVarAddr, s.floatVar[0] \o s.floatVar[1])]

\* EEPROM.put(2, flowStatus): sizeof(flowStatus) = 2 ints
PutFlowStatus(s) ==
    [s EXCEPT !.eeprom =
        PutBytes(@, flowStatusAddr, IntBytes(s.flowStatus[0]) \o IntBytes(s.flowStatus[1]))]

\* EEPROM.put(3, volFloat)
PutVolFloat(s) ==
    [s EXCEPT !.eeprom = PutBytes(@, volFloatAddr, IntBytes(s.volFloat))]

----------------------------------------------------------------------------
(* setup(), lines 128-195, run on the memory a reset leaves: statics are   *)
(* zero, and a word past the end of motorStatus holds what its neighbour   *)
(* holds (past).                                                           *)

PastValues == {0, 2}

AfterReset(ee, past) ==
    [motorStatus |-> [w \in Window |-> IF w < MsWords THEN 0 ELSE past],
     eeprom |-> ee,
     motorRun |-> [n \in Channels |-> "RELEASE"],
     motorSpeed |-> [n \in Channels |-> 0],
     startTime |-> 0, targetTime |-> 0, timeCounter |-> FALSE,
     floatVar |-> [k \in 0..floatVarLen |-> F32(0)],
     flowStatus |-> [k \in 0..flowStatusLen |-> 0],
     volFloat |-> 0,
     InfWith |-> FALSE,
     wild |-> FALSE,
     autoStop |-> -1]

\* lines 151-157: EEPROM.get(eeAddress, motorStatus), then setSpeed per motor
RECURSIVE SetupSpeeds(_, _)
SetupSpeeds(s, n) ==
    IF n = nShields * nMotorsPerShield THEN s
    ELSE SetupSpeeds(SetSpeed(s, Shield(n), Motor(n),
                              s.motorStatus[Idx(Shield(n), Motor(n), 0)]), n + 1)

SetupMotors(s) ==
    SetupSpeeds(
        [s EXCEPT !.motorStatus =
            [w \in Window |->
                IF w < MsWords THEN IntAt(s.eeprom, eeAddress + 2 * w) ELSE @[w]]],
        0)

\* lines 159-166
SetupFloatVar(s) ==
    LET got == [s EXCEPT !.floatVar[0] = FloatAt(s.eeprom, floatVarAddr),
                         !.floatVar[1] = FloatAt(s.eeprom, floatVarAddr + 4)]
    IN IF FloatNonZero(got.floatVar[0])
       THEN PutFloatVar([got EXCEPT !.floatVar[0] = F32(37000),
                                    !.floatVar[1] = F32(14500),
                                    !.floatVar[2] = F32(1000)])
       ELSE got

\* lines 176-183
SetupFlowStatus(s) ==
    LET got == [s EXCEPT !.flowStatus[0] = IntAt(s.eeprom, flowStatusAddr),
                         !.flowStatus[1] = IntAt(s.eeprom, flowStatusAddr + 2)]
    IN IF got.flowStatus[0] # 0
       THEN PutFlowStatus([got EXCEPT !.flowStatus[0] = 0,
                                      !.flowStatus[1] = 0,
                                      !.flowStatus[2] = 0])
       ELSE got

\* lines 185-189
SetupVolFloat(s) ==
    LET got == [s EXCEPT !.volFloat = IntAt(s.eeprom, volFloatAddr)]
    IN IF got.volFloat # 0
       THEN PutVolFloat([got EXCEPT !.volFloat = 0])
       ELSE got

setup(ee, past) ==
    SetupVolFloat(SetupFlowStatus(SetupFloatVar(SetupMotors(AfterReset(ee, past)))))

\* an EEPROM that was never written reads 0xFF; an erased one may read 0
FreshEeprom == [a \in 0..EeTop |-> 255]
ClearedEeprom == [a \in 0..EeTop |-> 0]
BootImages == {FreshEeprom, ClearedEeprom}

\* no Set screen is open: its locals do not exist
NoSession ==
    /\ printVal = <<>>
    /\ decimalPos = 0
    /\ printInt = 0
    /\ cursorPos = 0
    /\ sigFig = 0

Booted ==
    /\ now = 0
    /\ \E image \in BootImages, past \in PastValues :
        LET s == setup(image, past) IN
        /\ motorStatus = s.motorStatus
        /\ eeprom = s.eeprom
        /\ motorRun = s.motorRun
        /\ motorSpeed = s.motorSpeed
        /\ startTime = s.startTime
        /\ targetTime = s.targetTime
        /\ timeCounter = s.timeCounter
        /\ floatVar = s.floatVar
        /\ flowStatus = s.flowStatus
        /\ volFloat = s.volFloat
        /\ InfWith = s.InfWith
        /\ wild = s.wild
        /\ autoStop = s.autoStop

\* the program is in loop(): the locals of MenuUI do not exist
NoMenu ==
    /\ ui = "loop"
    /\ MenuChoice = 0
    /\ called = "none"

Init == Booted /\ NoSession /\ NoMenu

\* a power cycle: the EEPROM keeps its bytes, setup() runs again
Restart ==
    /\ now' = 0
    /\ \E past \in PastValues : Commit(setup(eeprom, past))

----------------------------------------------------------------------------
(* loop(), lines 201-223: the auto-stop block.  elapsedTime and            *)
(* timeRemaining are written and read inside the block only (the other     *)
(* stores to elapsedTime are never read), so they are not kept as state.   *)

\* the body of the two for loops, for motor n = i * nMotorsPerShield + j
StopChannel(s, n) ==
    Run(PutMotorStatus(Store(s, Shield(n), Motor(n), 1, 0)),
        Shield(n), Motor(n), "RELEASE")

RECURSIVE StopLoop(_, _)
StopLoop(s, n) ==
    IF n = nShields * nMotorsPerShield THEN s ELSE StopLoop(StopChannel(s, n), n + 1)

\* a comparison that lets the deadline itself pass
ExpiredLate(elapsed, target) == elapsed > target

\* elapsedTime >= targetTime
Expired(elapsed, target) == elapsed >= target

AutoStop(s, t) ==
    IF s.timeCounter /\ Expired(t - s.startTime, s.targetTime)
    THEN [StopLoop(s, 0) EXCEPT !.targetTime = 0,
                                !.timeCounter = FALSE,
                                !.autoStop = s.targetTime]
    ELSE s

----------------------------------------------------------------------------
(* loop(), lines 244-427: one serial line *)

\* char incoming[maxMessageLength] after Serial.readBytesUntil stored the line:
\* the array is not initialised, so the bytes past the line are what the stack held
Incoming(line, pad) ==
    [k \in 0..(maxMessageLength - 1) |-> IF k < Len(line) THEN line[k + 1] ELSE pad]

KeyChars ==
    {Code("1"), Code("2"), Code("3"), Code("4"), Code("5"), Code("6"), Code("7"),
     Code("8"), Code("9"), Code("*"), Code("A"), Code("B"), Code("C"), Code("D")}

\* the if / else if chain of lines 268-427
Branch(first, len) ==
    IF first = Code("g") THEN "status"
    ELSE IF first = Code("a") /\ len = 1 THEN "stopAll"
    ELSE IF first = Code("a") /\ len # 1 THEN "stopOne"
    ELSE IF first = Code("p") THEN "count"
    ELSE IF first = Code("s") THEN "setSpeed"
    ELSE IF first \in KeyChars THEN "key"
    ELSE IF first = Code("r") /\ len = maxMessageLength THEN "start"
    ELSE "else"

\* incoming[k] - '0' - 1 stored in a byte
Address(c) == Byte(c - Code("0") - 1)

\* g, lines 268-283
CmdStatus(s) == s

\* a, lines 286-303
StopAllChannel(s, n) ==
    Run(PutMotorStatus(Store(Store(s, Shield(n), Motor(n), 0, 255),
                             Shield(n), Motor(n), 1, 0)),
        Shield(n), Motor(n), "RELEASE")

RECURSIVE StopAllLoop(_, _)
StopAllLoop(s, n) ==
    IF n = nShields * nMotorsPerShield THEN s
    ELSE StopAllLoop(StopAllChannel(s, n), n + 1)

CmdStopAll(s) ==
    [StopAllLoop(s, 0) EXCEPT !.timeCounter = FALSE]

\* axy, lines 306-323
CmdStopOne(s, inc) ==
    LET cs == Address(inc[1])
        cm == Address(inc[2])
    IN [Run(PutMotorStatus(Store(s, cs, cm, 1, 0)), cs, cm, "RELEASE")
            EXCEPT !.timeCounter = FALSE]

\* p, lines 326-331
CmdCount(s) == s

\* (a * 100) + (b * 10) + c stored in the byte currentSpeed, a, b, c bytes
Speed(c3, c4, c5) ==
    Byte((Byte(c3 - Code("0")) * 100) + (Byte(c4 - Code("0")) * 10)
         + Byte(c5 - Code("0")))

\* sxynnn, lines 334-360
CmdSetSpeed(s, inc) ==
    LET cs == Address(inc[1])
        cm == Address(inc[2])
        currentSpeed == Speed(inc[3], inc[4], inc[5])
    IN SetSpeed(PutMotorStatus(Store(s, cs, cm, 0, currentSpeed)), cs, cm, currentSpeed)

\* atol on characters: the digits up to the first character that is none
RECURSIVE Atol(_, _)
Atol(chars, acc) ==
    IF chars = <<>> \/ ~isDigit(Head(chars)) THEN acc
    ELSE Atol(Tail(chars), acc * 10 + (Head(chars) - Code("0")))

\* a start that keeps the deadline of a run already under way
CmdStartKeepsDeadline(s, inc, t, after) ==
    LET target == Atol(<<inc[4], inc[5], inc[6], inc[7], inc[8]>> \o after, 0) * 1000
        cs == Address(inc[1])
        cm == Address(inc[2])
        set == PutMotorStatus(Store(s, cs, cm, 1, inc[3] - Code("0")))
        dir == IF inc[3] = Code("1") THEN "FORWARD" ELSE "BACKWARD"
    IN IF inc[3] \in {Code("1"), Code("2")}
       THEN IF s.timeCounter
            THEN Run(set, cs, cm, dir)
            ELSE [Run(set, cs, cm, dir)
                    EXCEPT !.targetTime = target, !.startTime = t, !.timeCounter = TRUE]
       ELSE [set EXCEPT !.targetTime = target]

\* rxydttttt, lines 368-422.  targetTimeInput holds five characters and no
\* terminator: atol reads on into the bytes that follow it on the stack (after)
CmdStart(s, inc, t, after) ==
    LET target == Atol(<<inc[4], inc[5], inc[6], inc[7], inc[8]>> \o after, 0) * 1000
        cs == Address(inc[1])
        cm == Address(inc[2])
        set == PutMotorStatus(Store([s EXCEPT !.targetTime = target],
                                    cs, cm, 1, inc[3] - Code("0")))
    IN IF inc[3] = Code("1")
       THEN [Run(set, cs, cm, "FORWARD")
                EXCEPT !.startTime = t, !.timeCounter = TRUE]
       ELSE IF inc[3] = Code("2")
       THEN [Run(set, cs, cm, "BACKWARD")
                EXCEPT !.startTime = t, !.timeCounter = TRUE]
       ELSE set

\* lines 424-426: Serial.println()
CmdElse(s) == s

\* what each branch prints on Serial (x, y, nnn: the characters of the line)
Reply(op, inc) ==
    CASE op = "status" -> "S1M1:speed,state;..."
      [] op = "stopAll" -> "Stopped all pumps!"
      [] op = "stopOne" -> "Stopped pump: x,y!"
      [] op = "count" -> "nShields.nMotorsPerShield"
      [] op = "setSpeed" -> "Set speed of pump: x,y to nnn"
      [] op = "key" -> "none"
      [] op = "start" ->
            IF inc[3] = Code("1") THEN "Started pump: x,y in the forward direction."
            ELSE IF inc[3] = Code("2") THEN "Started pump: x,y in the backward direction."
            ELSE "none"
      [] op = "else" -> ""

Handle(op, s, inc, t, after) ==
    CASE op = "status" -> CmdStatus(s)
      [] op = "stopAll" -> CmdStopAll(s)
      [] op = "stopOne" -> CmdStopOne(s, inc)
      [] op = "count" -> CmdCount(s)
      [] op = "setSpeed" -> CmdSetSpeed(s, inc)
      [] op = "key" -> s
      [] op = "start" -> CmdStart(s, inc, t, after)
      [] op = "else" -> CmdElse(s)

----------------------------------------------------------------------------
(* The serial lines, stack residues and elapsed times the model draws from *)

Lines ==
    { Str(<<"g">>), Str(<<"a">>), Str(<<"p">>), Str(<<"5">>),
      Str(<<"a", "1", "1">>), Str(<<"a", "1", "2">>), Str(<<"a", "1">>),
      Str(<<"s", "1", "1", "2", "5", "5">>), Str(<<"s", "1", "2", "1", "0", "0">>),
      Str(<<"s", "1", "1", "1", "0", "2", "5", "5">>),
      Str(<<"r", "1", "1", "1", "0", "0", "0", "0", "1">>),
      Str(<<"r", "1", "2", "2", "0", "0", "0", "0", "1">>),
      Str(<<"r", "1", "1", "1", "0", "0", "0", "0", "0">>),
      Str(<<"r", "1", "1", "3", "0", "0", "0", "0", "1">>),
      Str(<<"r", "2", "1", "1", "0", "0", "0", "0", "1">>),
      Str(<<"r", "1", "1", "1">>) }

\* what an uninitialised byte of incoming may hold
PadChars == {Code("0"), Code("1")}

\* the digits atol may find after targetTimeInput
StackTails == {<<>>, <<Code("0")>>}

Ops == {"status", "stopAll", "stopOne", "count", "setSpeed", "key", "start", "else"}

LinesFor == [op \in Ops |-> {l \in Lines : Branch(l[1], Len(l)) = op}]

----------------------------------------------------------------------------
(* One iteration of loop() *)

\* the iteration up to line 243, with millis() = t and no key pressed
Entered(t) == AutoStop([Cur EXCEPT !.autoStop = -1], t)

\* no serial line is waiting
LoopIdle ==
    \E dt \in DtSet :
        /\ now + dt <= MaxNow
        /\ now' = now + dt
        /\ Commit(Entered(now + dt))

\* the residues that matter to a line: none when the line fills what is read
PadsFor(line) == IF Len(line) \in {2, 4, 5} THEN PadChars ELSE {Code("0")}

\* what the iteration that reads the serial line at millis() = t leaves
Handled(line, t, pad, after) ==
    Handle(Branch(line[1], Len(line)), Entered(t), Incoming(line, pad), t, after)

LoopStatus ==
    \E line \in LinesFor["status"], dt \in DtSet :
        /\ now + dt <= MaxNow
        /\ now' = now + dt
        /\ Commit(Handled(line, now + dt, Code("0"), <<>>))

LoopStopAll ==
    \E line \in LinesFor["stopAll"], dt \in DtSet :
        /\ now + dt <= MaxNow
        /\ now' = now + dt
        /\ Commit(Handled(line, now + dt, Code("0"), <<>>))

LoopStopOne ==
    \E line \in LinesFor["stopOne"], dt \in DtSet :
      \E pad \in PadsFor(line) :
        /\ now + dt <= MaxNow
        /\ now' = now + dt
        /\ Commit(Handled(line, now + dt, pad, <<>>))

LoopCount ==
    \E line \in LinesFor["count"], dt \in DtSet :
        /\ now + dt <= MaxNow
        /\ now' = now + dt
        /\ Commit(Handled(line, now + dt, Code("0"), <<>>))

LoopSetSpeed ==
    \E line \in LinesFor["setSpeed"], dt \in DtSet :
      \E pad \in PadsFor(line) :
        /\ now + dt <= MaxNow
        /\ now' = now + dt
        /\ Commit(Handled(line, now + dt, pad, <<>>))

LoopKey ==
    \E line \in LinesFor["key"], dt \in DtSet :
        /\ now + dt <= MaxNow
        /\ now' = now + dt
        /\ Commit(Handled(line, now + dt, Code("0"), <<>>))

LoopStart ==
    \E line \in LinesFor["start"], dt \in DtSet, after \in StackTails :
        /\ now + dt <= MaxNow
        /\ now' = now + dt
        /\ Commit(Handled(line, now + dt, Code("0"), after))

LoopElse ==
    \E line \in LinesFor["else"], dt \in DtSet :
        /\ now + dt <= MaxNow
        /\ now' = now + dt
        /\ Commit(Handled(line, now + dt, Code("0"), <<>>))

Next ==
    \/ LoopIdle
    \/ LoopStatus
    \/ LoopStopAll
    \/ LoopStopOne
    \/ LoopCount
    \/ LoopSetSpeed
    \/ LoopKey
    \/ LoopStart
    \/ LoopElse

\* the serial protocol and the auto-stop, from the first boot on
Spec == Init /\ [][Next]_vars

----------------------------------------------------------------------------
(* The keypad menu: loop() line 241 calls MenuUI() when the key is 'A'.    *)
(* MenuUI and the screens it opens poll the keypad in their own while      *)
(* loops, so one iteration of loop() lasts until the screen is left.       *)

\* lines 515-527: 'B' and 'C' move MenuChoice round 0..3
\* a 'B' or 'C' key that does not wrap
BrowseNoWrap(choice, key) ==
    IF key = Code("B") THEN choice + 1
    ELSE IF key = Code("C") THEN choice - 1
    ELSE choice

Browse(choice, key) ==
    IF key = Code("B") THEN (IF choice + 1 > 3 THEN 0 ELSE choice + 1)
    ELSE IF key = Code("C") THEN (IF choice - 1 < 0 THEN 3 ELSE choice - 1)
    ELSE choice

RECURSIVE BrowseAll(_, _)
BrowseAll(choice, keys) ==
    IF keys = <<>> THEN choice
    ELSE BrowseAll(Browse(choice, Head(keys)), Tail(keys))

\* the 'B'/'C' keys pressed before 'A', '#' or 'D'
BrowseKeys ==
    {<<>>, <<Code("B")>>, <<Code("C")>>, <<Code("B"), Code("B")>>, <<Code("B"), Code("C")>>}

\* (a > t > b) as C++ reads it: (a > t) is 0 or 1, and that is compared with b.
\* The operands are in millionths.
Chain(a, t, b) == (IF a > t THEN 1000000 ELSE 0) > b

\* lines 687-701: tempVal in millionths, for the rate in thousandths
TempVal(rate, unitVal) ==
    IF unitVal = 1 THEN rate * 60
    ELSE IF unitVal = 2 THEN rate
    ELSE rate * 1000

\* Units2Pct, lines 686-861, on floatVar[0] (rate) and floatVar[2] (scale):
\* the gear it selects, the rate it leaves in floatVar[0] and the time its
\* delay() calls take.  motorVal lives in structMotor, whose storage ends with
\* the call.
Units2Pct(s, unitVal) ==
    LET rate == Milli(s.floatVar[0])
        sc == Milli(s.floatVar[2])
        tempVal == TempVal(rate, unitVal)
        gearRatio ==
            IF Chain(37000 * sc, tempVal, 16000 * sc) THEN 1
            ELSE IF Chain(16000 * sc, tempVal, 9000 * sc) THEN 2
            ELSE IF Chain(9000 * sc, tempVal, 3000 * sc) THEN 3
            ELSE IF Chain(3000 * sc, tempVal, 2000 * sc) THEN 4
            ELSE IF Chain(2000 * sc, tempVal, 600 * sc) THEN 5
            ELSE IF Chain(600 * sc, tempVal, 300 * sc) THEN 6
            ELSE IF Chain(300 * rate, tempVal, 100 * sc) THEN 7
            ELSE IF Chain(100 * rate, tempVal, 80 * sc) THEN 8
            ELSE IF Chain(80 * rate, tempVal, 25 * sc) THEN 9
            ELSE IF Chain(25 * rate, tempVal, 6 * sc) THEN 10
            ELSE IF tempVal > 37000 * sc THEN -1
            ELSE IF tempVal <= (66 * sc - 1) \div 10 THEN -2
            ELSE 0
    IN [st |-> IF gearRatio = -1
               THEN [s EXCEPT !.floatVar[0] = F32((27855 * sc) \div 1000)]
               ELSE s,
        gearRatio |-> gearRatio,
        blocked |-> IF gearRatio \in {-1, -2} THEN 9000 ELSE 3000]

\* ((tempVal / floatVar[0]) * 60000) of line 1170 in single precision, converted
\* to unsigned long, for a volume of 1 (tempVal is 1, 1000/60 or 1000 by unit)
TargetFor1(unit, rate) ==
    IF unit = 0
    THEN CASE rate = 1000 -> 60000 [] rate = 27855 -> 2154 [] rate = 37000 -> 1621
           [] rate = 100000 -> 600 [] rate = 250000 -> 240
    ELSE IF unit = 1
    THEN CASE rate = 1000 -> 999999 [] rate = 27855 -> 35900 [] rate = 37000 -> 27027
           [] rate = 100000 -> 9999 [] rate = 250000 -> 3999
    ELSE CASE rate = 1000 -> 60000000 [] rate = 27855 -> 2154012
           [] rate = 37000 -> 1621621 [] rate = 100000 -> 600000
           [] rate = 250000 -> 240000

\* int / int of C: the quotient is cut towards zero
IntDiv(a, b) == IF a >= 0 THEN a \div b ELSE -((-a) \div b)

\* setTargetTime, lines 1156-1171.  With floatVar[0] zero the quotient is not
\* a number an unsigned long can hold, and the conversion gives undef.
setTargetTime(s, undef) ==
    LET tempVal == IntDiv(s.volFloat, 100)
        rate == Milli(s.floatVar[0])
    IN [s EXCEPT !.targetTime =
            IF rate = 0 THEN undef
            ELSE IF tempVal = 0 THEN 0
            ELSE TargetFor1(s.flowStatus[0], rate)]

\* what the conversion of a value no unsigned long can hold may give
UndefLongs == {0, 1000}

\* lines 610-614: unitVal + 1, back to 0 past 3
NextUnit(unitVal) == IF unitVal + 1 > 3 THEN 0 ELSE unitVal + 1

RECURSIVE Cycle(_, _)
Cycle(unitVal, presses) ==
    IF presses = 0 THEN unitVal ELSE Cycle(NextUnit(unitVal), presses - 1)

\* the 'A'/'#' keys pressed on the Set Rate screen
UnitPresses == 0..3

\* no digit, '*', 'B' or 'C' was pressed on the screen
NoEdit == -1

\* what atof reads from the edit buffer after edit keys, in thousandths
EditedRates == {NoEdit, 1000, 250000}

\* what motorStruct[1] reads from the storage Units2Pct has left
StructVals == {0, 255}

\* motorVal * 2.55 stored to an int
Times255(motorVal) == IntDiv(motorVal * 255, 100)

\* SetRate, lines 571-683, left with 'D' after `presses` unit keys; edited is
\* what the edit keys left in the buffer.
SetRate(s, presses, edited, structVal, undef) ==
    LET motorSel == s.flowStatus[2]
        motorVal0 == IF Idx(0, motorSel, 0) \in Window
                     THEN s.motorStatus[Idx(0, motorSel, 0)] ELSE structVal
        unitVal == Cycle(s.flowStatus[0] - 1, presses + 1)
        typed == IF edited = NoEdit THEN s ELSE [s EXCEPT !.floatVar[0] = F32(edited)]
        pct == IF Milli(typed.floatVar[0]) > 100000
               THEN [typed EXCEPT !.floatVar[0] = F32(100000)]
               ELSE typed
        mapped == Units2Pct(typed, unitVal)
        conv == IF unitVal = 0 THEN pct ELSE mapped.st
        motorVal == IF unitVal = 0 THEN Times255(motorVal0) ELSE structVal
        stored == [Store(conv, 1, motorSel, 0, motorVal) EXCEPT !.flowStatus[0] = unitVal]
    IN [st |-> PutFlowStatus(PutFloatVar(PutMotorStatus(setTargetTime(stored, undef)))),
        blocked |-> IF unitVal = 0 THEN 0 ELSE mapped.blocked]

\* the keys 'B'/'C' pressed on the Infuse/Withdraw screen
TogglePresses == 0..1

RECURSIVE Toggle(_, _)
Toggle(b, presses) == IF presses = 0 THEN b ELSE Toggle(~b, presses - 1)

\* SetInfWith, lines 1215-1241: keypressed starts as 'B'
SetInfWith(s, presses) == [s EXCEPT !.InfWith = Toggle(@, presses + 1)]

\* what atof(structLCDVal) * 100 gives after edit keys
EditedVolumes == {NoEdit, 100}

\* SetVolume, lines 1103-1153; line 1124 assigns 0 to flowStatus[0]
SetVolume(s, edited, undef) ==
    LET shown == [s EXCEPT !.flowStatus[0] = 0]
        typed == IF edited = NoEdit THEN shown ELSE [shown EXCEPT !.volFloat = Int16(edited)]
    IN setTargetTime(PutVolFloat(typed), undef)

\* loop() with key 'A', MenuUI lines 506-569 up to 'A' on "Set Rate"
MenuSetRate ==
    \E dt \in DtSet, keys \in BrowseKeys, presses \in UnitPresses,
       edited \in EditedRates, structVal \in StructVals, undef \in UndefLongs :
        /\ now + dt <= MaxNow
        /\ BrowseAll(0, keys) = 0
        /\ LET r == SetRate(Entered(now + dt), presses, edited, structVal, undef)
           IN now' = now + dt + r.blocked /\ Commit(r.st)

\* ... up to 'A' on "Set Inf/With"
MenuSetInfWith ==
    \E dt \in DtSet, keys \in BrowseKeys, presses \in TogglePresses :
        /\ now + dt <= MaxNow
        /\ BrowseAll(0, keys) = 2
        /\ now' = now + dt
        /\ Commit(SetInfWith(Entered(now + dt), presses))

\* ... up to 'A' on "Set Volume"
MenuSetVolume ==
    \E dt \in DtSet, keys \in BrowseKeys, edited \in EditedVolumes, undef \in UndefLongs :
        /\ now + dt <= MaxNow
        /\ BrowseAll(0, keys) = 3
        /\ now' = now + dt
        /\ Commit(SetVolume(Entered(now + dt), edited, undef))

\* ... left with '#' or 'D' (lines 563-565)
MenuExit ==
    \E dt \in DtSet, keys \in BrowseKeys :
        /\ now + dt <= MaxNow
        /\ now' = now + dt
        /\ Commit(Entered(now + dt))

MenuNext ==
    \/ MenuSetRate
    \/ MenuSetInfWith
    \/ MenuSetVolume
    \/ MenuExit
    \/ Restart

MenuSpec == Init /\ [][MenuNext]_vars

----------------------------------------------------------------------------
(* The Set Diameter screen *)

\* r ^ 2 of line 965: ^ is the exclusive or, which flips bit 1 of r
XorTwo(r) == IF (r \div 2) % 2 = 1 THEN r - 2 ELSE r + 2

\* DiaConv, lines 956-971: h1 = 23.713 and h0 are ints, v = 27.855,
\* h0 = (PI * (r ^ 2)) / v, and h0 / h1 is returned as an int
DiaConv(r) == IntDiv(IntDiv(314159 * XorTwo(r), 2785500), 23)

\* the 'B'/'#' keys pressed on the screen after it opened
PresetPresses == 0..3

\* lines 885-890: unitVal starts at -1, the screen opens with keypressed = 'B'
RECURSIVE PresetAfter(_, _)
PresetAfter(unitVal, presses) ==
    IF presses = 0 THEN unitVal
    ELSE PresetAfter(IF unitVal + 1 > 2 THEN 0 ELSE unitVal + 1, presses - 1)

\* what atof reads from the edit buffer after edit keys on "Custom", in thousandths
EditedDiameters == {NoEdit, 5000}

\* what atof reads through DiaVal while DiaVal was never assigned, in thousandths
UnsetDiameters == {0, 14500}

\* the address DiaVal holds when it is handed to DiaConv(int r): where the build
\* put the string literal, or the edit buffer on the stack
StringAddrs == {300, 2200}

\* SetDiameter, lines 865-952, left with 'D' after `presses` preset keys
SetDiameter(s, presses, edited, unset, addr) ==
    LET unitVal == PresetAfter(-1, presses + 1)
        tempVal == IF unitVal = 1 THEN 14500
                   ELSE IF unitVal = 2 THEN 19130
                   ELSE IF edited # NoEdit THEN edited
                   ELSE IF presses >= 3 THEN 19130
                   ELSE unset
        diaScale == DiaConv(addr)
    IN PutFloatVar([s EXCEPT !.floatVar[1] = F32(tempVal),
                             !.floatVar[2] = F32(1000 * diaScale)])

\* loop() with key 'A', MenuUI up to 'A' on "Set Diameter"
MenuSetDiameter ==
    \E dt \in DtSet, keys \in BrowseKeys, presses \in PresetPresses,
       edited \in EditedDiameters, unset \in UnsetDiameters, addr \in StringAddrs :
        /\ now + dt <= MaxNow
        /\ BrowseAll(0, keys) = 1
        /\ now' = now + dt
        /\ Commit(SetDiameter(Entered(now + dt), presses, edited, unset, addr))

DiaNext ==
    \/ MenuSetDiameter
    \/ MenuExit
    \/ Restart

DiaSpec == Init /\ [][DiaNext]_vars

----------------------------------------------------------------------------
(* The duty Units2Pct computes, lines 707-772 *)

\* ((tempVal - a * floatVar[2]) / (b * floatVar[2])) * 100 stored in the int
\* motorVal; x and y are the numerator and the denominator in millionths
Percent(x, y) ==
    LET q == IntDiv(x, y)
        r == x - q * y
        d1 == IntDiv(10 * r, y)
        r1 == 10 * r - d1 * y
        d2 == IntDiv(10 * r1, y)
    IN 100 * q + 10 * d1 + d2

\* a and b of the ten branches, in ten-thousandths
GearOffset(g) ==
    CASE g = 1 -> 92849 [] g = 2 -> 41078 [] g = 3 -> 24206 [] g = 4 -> 8456
      [] g = 5 -> 5366 [] g = 6 -> 1704 [] g = 7 -> 956 [] g = 8 -> 331
      [] g = 9 -> 210 [] g = 10 -> 66

GearSlope(g) ==
    CASE g = 1 -> 278550 [] g = 2 -> 123230 [] g = 3 -> 72617 [] g = 4 -> 25367
      [] g = 5 -> 16099 [] g = 6 -> 5112 [] g = 7 -> 2867 [] g = 8 -> 992
      [] g = 9 -> 629 [] g = 10 -> 199

\* what a quotient by zero stored in an int may give
UndefInts == {0, -1}

\* motorVal as Units2Pct assigns it for the gear it selected; tempVal in
\* millionths, sc in thousandths.  Branches 8 and 10 (lines 730, 736) divide
\* a by b before subtracting.
MotorVal(gearRatio, tempVal, sc, undef) ==
    IF gearRatio = -1 THEN 255
    ELSE IF gearRatio = -2 THEN 64
    ELSE IF gearRatio = 0 THEN 0
    ELSE IF sc = 0 THEN undef
    ELSE IF gearRatio \in {8, 10}
    THEN IntDiv(tempVal - IntDiv(GearOffset(gearRatio) * 1000000, GearSlope(gearRatio)),
                10000)
    ELSE Percent(tempVal - IntDiv(GearOffset(gearRatio) * sc, 10),
                 IntDiv(GearSlope(gearRatio) * sc, 10))

----------------------------------------------------------------------------
(* The decimal value editor: LCDinput, lines 982-1099, and the buffers the *)
(* Set screens hand it.  The buffers are declared char x[] = {} (lines     *)
(* 582, 1104): printVal models the bytes the pointer is used on, at the    *)
(* indices Cells relative to it.                                           *)

\* sizeof(printVal) / sizeof(printVal[0]) for a char *printVal, line 998
arrLen == 2

NUL == 0

\* the indices LCDinput can address from the pointer
Cells == -2 .. 6

\* the bytes found where nothing has been written
JunkChars == {NUL, Code("7")}

\* the digit keys pressed
DigitKeys == {Code("5")}
EditKeys == DigitKeys \cup {Code("*"), Code("B"), Code("C")}

RECURSIVE Digits(_)
Digits(n) == IF n < 10 THEN <<Code("0") + n>> ELSE Digits(n \div 10) \o <<Code("0") + (n % 10)>>

\* dtostrf(v, 2, 2, buffer) for v = h / 100, h >= 0: the characters written
\* before the terminating NUL
dtostrf(h) ==
    Digits(h \div 100) \o <<Code("."), Code("0") + ((h % 100) \div 10), Code("0") + (h % 10)>>

\* the memory after dtostrf has written text and its NUL at index 0
Written(text, junk) ==
    [i \in Cells |-> IF i >= 0 /\ i < Len(text) THEN text[i + 1]
                     ELSE IF i = Len(text) THEN NUL
                     ELSE junk[i]]

\* floatVar[0] in hundredths as dtostrf rounds it: the rates of the model
\* are multiples of 0.01, but for 27.855, whose float is 27.854999
RateHundredths(s) == Milli(s.floatVar[0]) \div 10

\* SetRate, lines 572-604: the editor state when the screen opens
OpenSetRate(s, junk) ==
    [printVal |-> Written(dtostrf(RateHundredths(s)), junk),
     decimalPos |-> 0, printInt |-> 0, cursorPos |-> 0, sigFig |-> 3]

\* SetVolume, lines 1104-1115; strcmp returns the difference of the first
\* characters that differ
OpenSetVolume(s, junk) ==
    LET m == Written(dtostrf(s.volFloat), junk)
        strcmp == IF m[0] # Code(".") THEN m[0] - Code(".") ELSE m[1] - NUL
    IN [printVal |-> m, decimalPos |-> strcmp - 1, printInt |-> 4,
        cursorPos |-> 0, sigFig |-> 2]

CurEdit ==
    [printVal |-> printVal, decimalPos |-> decimalPos, printInt |-> printInt,
     cursorPos |-> cursorPos, sigFig |-> sigFig]

\* lines 1027-1029
RECURSIVE ShiftLeft(_, _, _, _)
ShiftLeft(m, i, dp, cp) ==
    IF i < cp THEN ShiftLeft([m EXCEPT ![i] = m[dp + i]], i + 1, dp, cp) ELSE m

\* lines 1036-1040
RECURSIVE ShiftRight(_, _)
ShiftRight(m, i) ==
    IF i < arrLen + 1 THEN ShiftRight([m EXCEPT ![i] = m[i + 1]], i + 1) ELSE m

\* a '*' key that does not test for the cursor at 0
KeyPointAnywhere(e) ==
    [e EXCEPT !.printVal = [e.printVal EXCEPT ![e.cursorPos] = Code(".")],
              !.decimalPos = e.cursorPos]

\* lines 1019-1058: the '*' key.  The block at lines 1049-1057 is under
\* cursorPos == 0 inside the else of cursorPos == 0 and never runs.
KeyPoint(e) ==
    IF e.cursorPos = 0 THEN e
    ELSE IF e.decimalPos < e.cursorPos
    THEN [e EXCEPT !.printVal = [ShiftLeft(e.printVal, e.decimalPos, e.decimalPos, e.cursorPos)
                                    EXCEPT ![e.cursorPos] = Code(".")],
                   !.decimalPos = e.cursorPos]
    ELSE IF e.decimalPos > e.cursorPos
    THEN [e EXCEPT !.printVal = [ShiftRight(e.printVal, e.decimalPos)
                                    EXCEPT ![e.cursorPos] = Code(".")],
                   !.decimalPos = e.cursorPos]
    ELSE e

\* lines 1059-1092: a digit key
KeyDigit(e, key) ==
    LET auto == e.cursorPos >= e.sigFig
                /\ (e.cursorPos = e.decimalPos \/ e.decimalPos = -1)
        m1 == IF auto THEN [e.printVal EXCEPT ![e.cursorPos] = Code(".")] ELSE e.printVal
        c1 == IF auto THEN e.cursorPos + 1 ELSE e.cursorPos
        d1 == IF auto THEN e.sigFig ELSE e.decimalPos
        m2 == [m1 EXCEPT ![c1] = key]
        atLimit == d1 = c1 /\ c1 = e.sigFig - 1
        m3 == IF atLimit THEN [m2 EXCEPT ![e.sigFig] = Code(".")] ELSE m2
        d3 == IF atLimit THEN e.sigFig ELSE IF d1 = c1 THEN -1 ELSE d1
        full == (c1 > 1 /\ (d3 = 0 \/ d3 = e.sigFig)) \/ c1 > 2
    IN [e EXCEPT !.printVal = m3, !.decimalPos = d3,
                 !.printInt = IF full THEN 3 ELSE e.printInt,
                 !.cursorPos = IF full THEN 0 ELSE c1 + 1]

\* LCDinput, lines 982-1099
LCDinput(e, key) ==
    IF key = Code("B")
    THEN [e EXCEPT !.cursorPos = IF e.cursorPos + 1 > e.printInt THEN 0 ELSE e.cursorPos + 1]
    ELSE IF key = Code("C")
    THEN [e EXCEPT !.cursorPos = IF e.cursorPos - 1 < 0 THEN e.printInt ELSE e.cursorPos - 1]
    ELSE IF key = Code("*") THEN KeyPoint(e)
    ELSE IF isDigit(key) THEN KeyDigit(e, key)
    ELSE e

\* the indices of printVal LCDinput reads or writes for a key: the print
\* loop of lines 999-1001, then the key's branch
RECURSIVE Upto(_, _)
Upto(a, b) == IF a > b THEN {} ELSE {a} \cup Upto(a + 1, b)

Touched(e, key) ==
    Upto(0, arrLen - 1) \cup
    IF key = Code("*") /\ e.cursorPos # 0 /\ e.decimalPos < e.cursorPos
    THEN Upto(e.decimalPos, e.cursorPos)
         \cup {e.decimalPos + i : i \in Upto(e.decimalPos, e.cursorPos - 1)}
    ELSE IF key = Code("*") /\ e.cursorPos # 0 /\ e.decimalPos > e.cursorPos
    THEN Upto(e.decimalPos, arrLen + 1) \cup {e.cursorPos}
    ELSE IF isDigit(key)
    THEN LET auto == e.cursorPos >= e.sigFig
                     /\ (e.cursorPos = e.decimalPos \/ e.decimalPos = -1)
             c1 == IF auto THEN e.cursorPos + 1 ELSE e.cursorPos
             d1 == IF auto THEN e.sigFig ELSE e.decimalPos
         IN {e.cursorPos, c1} \cup (IF d1 = c1 /\ c1 = e.sigFig - 1 THEN {e.sigFig} ELSE {})
    ELSE {}

SetEdit(e) ==
    /\ printVal' = e.printVal
    /\ decimalPos' = e.decimalPos
    /\ printInt' = e.printInt
    /\ cursorPos' = e.cursorPos
    /\ sigFig' = e.sigFig

\* one key handed to LCDinput by the loop of a Set screen (lines 639-642,
\* 1136-1138)
EditKey ==
    /\ \E key \in EditKeys : SetEdit(LCDinput(CurEdit, key))
    /\ UNCHANGED uiVars
    /\ UNCHANGED <<motorStatus, eeprom, motorRun, motorSpeed, startTime, targetTime,
                   timeCounter, floatVar, flowStatus, volFloat, InfWith, now, wild,
                   autoStop>>

\* the editor as a Set screen opens it
EditInit ==
    /\ Booted
    /\ NoMenu
    /\ \E junk \in [Cells -> JunkChars] :
        \E e \in {OpenSetRate(Cur, junk), OpenSetVolume(Cur, junk)} :
            /\ printVal = e.printVal
            /\ decimalPos = e.decimalPos
            /\ printInt = e.printInt
            /\ cursorPos = e.cursorPos
            /\ sigFig = e.sigFig

EditNext == EditKey

EditSpec == EditInit /\ [][EditNext]_vars

----------------------------------------------------------------------------
(* loop() with runs started over the serial line and the keypad menu *)

UiNext ==
    \/ LoopIdle
    \/ LoopStart
    \/ MenuSetRate
    \/ MenuExit

UiSpec == Init /\ [][UiNext]_vars

----------------------------------------------------------------------------
(* MenuUI key by key, lines 506-569: one action is one pass of its while   *)
(* loop, the Set screen it calls included.                                 *)

\* loop() reads the key 'A' and calls MenuUI (lines 241-243, 506-511)
UiOpen ==
    \E dt \in DtSet :
        /\ ui = "loop"
        /\ now + dt <= MaxNow
        /\ now' = now + dt
        /\ Assign(Entered(now + dt))
        /\ ui' = "MenuUI"
        /\ MenuChoice' = 0
        /\ called' = "none"
        /\ UNCHANGED editVars

\* a pass with the key 'B' or 'C' (lines 514-526)
UiBrowse ==
    \E key \in {Code("B"), Code("C")} :
        /\ ui = "MenuUI"
        /\ MenuChoice' = Browse(MenuChoice, key)
        /\ UNCHANGED <<ui, called, now>>
        /\ Assign(Cur)
        /\ UNCHANGED editVars

\* a pass with the key 'A': the case of the switch for MenuChoice calls its
\* Set screen and sets Menu (lines 528-562); no case, no call
UiSelectRate ==
    \E presses \in UnitPresses, edited \in EditedRates, structVal \in StructVals,
       undef \in UndefLongs :
        /\ ui = "MenuUI" /\ MenuChoice = 0
        /\ LET r == SetRate(Cur, presses, edited, structVal, undef)
           IN now' = now + r.blocked /\ Assign(r.st)
        /\ ui' = "loop" /\ called' = "SetRate"
        /\ UNCHANGED <<MenuChoice, editVars>>

UiSelectDiameter ==
    \E presses \in PresetPresses, edited \in EditedDiameters, unset \in UnsetDiameters,
       addr \in StringAddrs :
        /\ ui = "MenuUI" /\ MenuChoice = 1
        /\ Assign(SetDiameter(Cur, presses, edited, unset, addr))
        /\ ui' = "loop" /\ called' = "SetDiameter"
        /\ UNCHANGED <<MenuChoice, now, editVars>>

UiSelectInfWith ==
    \E presses \in TogglePresses :
        /\ ui = "MenuUI" /\ MenuChoice = 2
        /\ Assign(SetInfWith(Cur, presses))
        /\ ui' = "loop" /\ called' = "SetInfWith"
        /\ UNCHANGED <<MenuChoice, now, editVars>>

UiSelectVolume ==
    \E edited \in EditedVolumes, undef \in UndefLongs :
        /\ ui = "MenuUI" /\ MenuChoice = 3
        /\ Assign(SetVolume(Cur, edited, undef))
        /\ ui' = "loop" /\ called' = "SetVolume"
        /\ UNCHANGED <<MenuChoice, now, editVars>>

\* a pass with the key '#' or 'D' (lines 563-565)
UiLeave ==
    /\ ui = "MenuUI"
    /\ ui' = "loop"
    /\ Assign(Cur)
    /\ UNCHANGED <<MenuChoice, called, now, editVars>>

BrowseNext ==
    \/ UiOpen
    \/ UiBrowse
    \/ UiSelectRate
    \/ UiSelectDiameter
    \/ UiSelectInfWith
    \/ UiSelectVolume
    \/ UiLeave

BrowseSpec == Init /\ [][BrowseNext]_vars
(* The subscripts the sketch applies to its three status arrays.            *)

\* motorStatus[i][j][k]: setup reads [i][j][0] (line 155), the auto-stop loop
\* writes [i][j][1] (line 214), SetRate reads [0][motorSel][0] (line 577) and
\* writes [1][motorSel][0] (line 673) with motorSel = flowStatus[2] (line 576)
StatusSubscripts(s) ==
    {<<Shield(n), Motor(n), k>> : n \in Channels, k \in {0, 1}}
        \cup {<<0, s.flowStatus[2], 0>>, <<1, s.flowStatus[2], 0>>}

\* flowStatus[0] unit (lines 179, 583, 674), flowStatus[1] direction (lines
\* 126, 180), flowStatus[2] selected motor (lines 181, 576)
FlowSubscripts == {0, 1, 2}

\* floatVar[0] rate, floatVar[1] diameter, floatVar[2] diameter scale (lines
\* 162-164, 687-773, 876-877, 948)
FloatSubscripts == {0, 1, 2}

----------------------------------------------------------------------------
(* What setup() reads back from the EEPROM image for each of the four      *)
(* records it keeps there.                                                 *)

\* EEPROM.get(eeAddress, motorStatus), line 151
GetMotorStatus(ee) == [w \in 0..(MsWords - 1) |-> IntAt(ee, eeAddress + 2 * w)]

\* EEPROM.get(1, floatVar), line 159
GetFloatVar(ee) == [i \in 0..(floatVarLen - 1) |-> FloatAt(ee, floatVarAddr + 4 * i)]

\* EEPROM.get(2, flowStatus), line 176
GetFlowStatus(ee) == [i \in 0..(flowStatusLen - 1) |-> IntAt(ee, flowStatusAddr + 2 * i)]

\* EEPROM.get(3, volFloat), line 185
GetVolFloat(ee) == IntAt(ee, volFloatAddr)

----------------------------------------------------------------------------

----------------------------------------------------------------------------
(* Properties.  The protocol of the specification: board x in 1..nShields, *)
(* motor y in 1..nMotorsPerShield, fixed field widths, decimal digits.     *)

\* the loop iteration that reads the line took this step
Reads(line) ==
    /\ (now' - now) \in DtSet
    /\ \E pad \in PadsFor(line), after \in StackTails :
          Commit(Handled(line, now', pad, after))

ReadsWith(line, after) ==
    /\ (now' - now) \in DtSet
    /\ \E pad \in PadsFor(line) : Commit(Handled(line, now', pad, after))

ValidAddress(line) ==
    /\ Len(line) >= 3
    /\ (line[2] - Code("0")) \in 1..nShields
    /\ (line[3] - Code("0")) \in 1..nMotorsPerShield

\* the motor a valid address names
ChannelOf(line) ==
    (line[2] - Code("0") - 1) * nMotorsPerShield + (line[3] - Code("0") - 1)

AllDigits(line, from, to) == \A k \in from..to : isDigit(line[k])

WellFormed(line) ==
    LET c == line[1] IN
    \/ c \in {Code("g"), Code("p")} /\ Len(line) = 1
    \/ c = Code("a") /\ Len(line) = 1
    \/ c = Code("a") /\ Len(line) = 3 /\ ValidAddress(line)
    \/ c = Code("s") /\ Len(line) = 6 /\ ValidAddress(line) /\ AllDigits(line, 4, 6)
    \/ c = Code("r") /\ Len(line) = 9 /\ ValidAddress(line) /\ AllDigits(line, 4, 9)

\* the Channel array of the specification: duty and run state of every motor
ChannelArray(ms) == [n \in Channels |-> <<Duty(ms, n), RunState(ms, n)>>]

Timers == <<startTime, targetTime, timeCounter>>
Calibration == <<floatVar, flowStatus, volFloat, InfWith>>

StoppedClean(ms, n) == Duty(ms, n) = 0 /\ RunState(ms, n) = 0

C9_DutyAndStateInRange ==
    \A n \in Channels :
        Duty(motorStatus, n) \in 0..255 /\ RunState(motorStatus, n) \in {0, 1, 2}

\* C10: the calibration SetRate or SetVolume has just saved is what setup()
\* loads from the EEPROM at the next start (rate, diameter, diameter scale,
\* flow unit, direction, volume), and at a start setup() keeps the stored
\* rate, unit and volume unless the EEPROM was never written.
C10_CalibrationSurvivesRestart ==
    [][ /\ (MenuSetRate \/ MenuSetVolume) =>
              \A past \in PastValues :
                  LET loaded == setup(eeprom', past)
                  IN /\ loaded.floatVar = floatVar'
                     /\ loaded.flowStatus[0] = flowStatus'[0]
                     /\ loaded.InfWith = InfWith'
                     /\ loaded.volFloat = volFloat'
        /\ (Restart /\ eeprom # FreshEeprom) =>
              /\ floatVar'[0] = FloatAt(eeprom, floatVarAddr)
              /\ flowStatus'[0] = IntAt(eeprom, flowStatusAddr)
              /\ volFloat' = IntAt(eeprom, volFloatAddr)
      ]_vars

\* the int a float converts to: the value of its four bytes, cut towards zero
FloatToInt(f) ==
    LET e == (f[4] % 128) * 2 + (f[3] \div 128)
        mant == ((f[3] % 128) + 128) * 65536 + f[2] * 256 + f[1]
        mag == IF e < 127 THEN 0
               ELSE IF e <= 150 THEN mant \div (2 ^ (150 - e))
               ELSE mant * (2 ^ (e - 150))
    IN IF f[4] >= 128 THEN -mag ELSE mag

\* C11: in every reachable state the diameter scale floatVar[2] is what
\* DiaConv gives for the diameter floatVar[1].
C11_ScaleFollowsDiameter ==
    Milli(floatVar[2]) = 1000 * DiaConv(FloatToInt(floatVar[1]))

\* the gear and the duty the mapper gives the current rate and scale in unit u
GearFor(u) == Units2Pct(Cur, u).gearRatio
DutyFor(u, undef) ==
    MotorVal(GearFor(u), TempVal(Milli(floatVar[0]), u), Milli(floatVar[2]), undef)

\* the normalized rate lies above the top range, below the bottom range
AboveTop(u) == TempVal(Milli(floatVar[0]), u) > 37000 * Milli(floatVar[2])
BelowBottom(u) == TempVal(Milli(floatVar[0]), u) <= (66 * Milli(floatVar[2]) - 1) \div 10

\* C12: for every rate, flow unit and scale the mapper selects one of the ten
\* gear ranges or one of the two saturation cases, never none.
C12_MapperTotal ==
    \A u \in 1..3 : GearFor(u) \in (1..10) \cup {-1, -2}

\* C13: for every rate inside the calibrated span the duty the mapper
\* computes lies in 0..255.
C13_DutyInRange ==
    \A u \in 1..3, undef \in UndefInts :
        (~AboveTop(u) /\ ~BelowBottom(u)) => DutyFor(u, undef) \in 0..255

\* C14: a normalized rate above the top range gives duty 255 and the fastest
\* marker (-1); one below the bottom range gives duty 64 and the slowest
\* marker (-2).
C14_Saturation ==
    \A u \in 1..3, undef \in UndefInts :
        /\ AboveTop(u) => (GearFor(u) = -1 /\ DutyFor(u, undef) = 255)
        /\ BelowBottom(u) => (GearFor(u) = -2 /\ DutyFor(u, undef) = 64)

\* the C string at the edit buffer, and the decimal points in it
RECURSIVE CString(_, _)
CString(m, i) ==
    IF i \notin DOMAIN m \/ m[i] = NUL THEN <<>> ELSE <<m[i]>> \o CString(m, i + 1)

Points(t) == Cardinality({i \in 1..Len(t) : t[i] = Code(".")})

\* C15: after any sequence of digit, cursor and decimal-point keys the edit
\* buffer holds at most one decimal point.
C15_AtMostOnePoint == Points(CString(printVal, 0)) <= 1

\* C16: whatever key comes next, every index of the buffer LCDinput reads or
\* writes is at or after the start of the buffer and inside it.
C16_IndicesInBuffer ==
    \A key \in EditKeys : Touched(CurEdit, key) \subseteq {i \in Cells : i >= 0}

\* atof of a text, in hundredths as dtostrf(v, 2, 2) rounds it
RECURSIVE DigitRun(_)
DigitRun(t) ==
    IF t = <<>> \/ ~isDigit(Head(t)) THEN <<>> ELSE <<Head(t)>> \o DigitRun(Tail(t))

atof(t) ==
    LET ip == DigitRun(t)
        rest == SubSeq(t, Len(ip) + 1, Len(t))
        fp == IF rest # <<>> /\ Head(rest) = Code(".") THEN DigitRun(Tail(rest)) ELSE <<>>
        d(i) == IF i <= Len(fp) THEN fp[i] - Code("0") ELSE 0
    IN Atol(ip, 0) * 100 + d(1) * 10 + d(2) + (IF d(3) >= 5 THEN 1 ELSE 0)

\* C17: parsing the edit buffer with atof and rendering the number with
\* dtostrf(v, 2, 2), as the Set screens do, gives the buffer back.
C17_RoundTrip ==
    dtostrf(atof(CString(printVal, 0))) = CString(printVal, 0)

\* the in-memory calibration and the EEPROM of st are those of this state
AsEntered(st) ==
    /\ <<st.floatVar, st.flowStatus, st.volFloat, st.InfWith>> = Calibration
    /\ st.eeprom = eeprom

\* C18: the menu, and each Set screen entered from it, can be left by some
\* key sequence without an edit so that the calibration in memory and the
\* EEPROM are exactly as they were on entry.
C18_CancelRestores ==
    /\ AsEntered(Entered(now))
    /\ \E presses \in UnitPresses, structVal \in StructVals, undef \in UndefLongs :
          AsEntered(SetRate(Cur, presses, NoEdit, structVal, undef).st)
    /\ \E presses \in PresetPresses, unset \in UnsetDiameters, addr \in StringAddrs :
          AsEntered(SetDiameter(Cur, presses, NoEdit, unset, addr))
    /\ \E presses \in TogglePresses : AsEntered(SetInfWith(Cur, presses))
    /\ \E undef \in UndefLongs : AsEntered(SetVolume(Cur, NoEdit, undef))

\* C19: when a Set screen is left with 'D', the EEPROM holds the value of the
\* edited field at the field's address: the rate at floatVarAddr, the
\* diameter after it, the volume at volFloatAddr; and the EEPROM left by
\* Set Inf/With tells the two directions apart.
C19_ConfirmPersists ==
    /\ \A presses \in UnitPresses, edited \in EditedRates, structVal \in StructVals,
          undef \in UndefLongs :
          LET st == SetRate(Cur, presses, edited, structVal, undef).st
          IN FloatAt(st.eeprom, floatVarAddr) = st.floatVar[0]
    /\ \A presses \in PresetPresses, edited \in EditedDiameters, unset \in UnsetDiameters,
          addr \in StringAddrs :
          LET st == SetDiameter(Cur, presses, edited, unset, addr)
          IN FloatAt(st.eeprom, floatVarAddr + 4) = st.floatVar[1]
    /\ \A edited \in EditedVolumes, undef \in UndefLongs :
          LET st == SetVolume(Cur, edited, undef)
          IN IntAt(st.eeprom, volFloatAddr) = st.volFloat
    /\ SetInfWith(Cur, 0).eeprom # SetInfWith(Cur, 1).eeprom

C21_InvalidEditNotStored ==
    /\ FloatNonZero(floatVar[0]) =>
          \A presses \in UnitPresses, structVal \in StructVals, undef \in UndefLongs :
              LET st == SetRate(Cur, presses, 0, structVal, undef).st
              IN /\ st.floatVar[0] = floatVar[0]
                 /\ FloatAt(st.eeprom, floatVarAddr) = FloatAt(eeprom, floatVarAddr)
    /\ FloatNonZero(floatVar[1]) =>
          \A unset \in UnsetDiameters, addr \in StringAddrs :
              LET st == SetDiameter(Cur, 0, 0, unset, addr)
              IN /\ st.floatVar[1] = floatVar[1]
                 /\ FloatAt(st.eeprom, floatVarAddr + 4) = FloatAt(eeprom, floatVarAddr + 4)

\* C22: with the unit Percent selected when a rate or a volume is confirmed,
\* no target duration is derived: targetTime is left as it was.
C22_PercentHasNoDuration ==
    /\ \A edited \in EditedRates, structVal \in StructVals, undef \in UndefLongs :
          LET st == SetRate(Cur, 0, edited, structVal, undef).st
          IN st.flowStatus[0] = 0 => st.targetTime = targetTime
    /\ \A edited \in EditedVolumes, undef \in UndefLongs :
          LET st == SetVolume(Cur, edited, undef)
          IN st.flowStatus[0] = 0 => st.targetTime = targetTime

\* the gear of the calibrated table for the normalized rate t (millionths)
\* and the scale sc (thousandths), 0 outside the ten ranges
TableGear(t, sc) ==
    IF 16000 * sc <= t /\ t < 37000 * sc THEN 1
    ELSE IF 9000 * sc <= t /\ t < 16000 * sc THEN 2
    ELSE IF 3000 * sc <= t /\ t < 9000 * sc THEN 3
    ELSE IF 2000 * sc <= t /\ t < 3000 * sc THEN 4
    ELSE IF 600 * sc <= t /\ t < 2000 * sc THEN 5
    ELSE IF 300 * sc <= t /\ t < 600 * sc THEN 6
    ELSE IF 100 * sc <= t /\ t < 300 * sc THEN 7
    ELSE IF 80 * sc <= t /\ t < 100 * sc THEN 8
    ELSE IF 25 * sc <= t /\ t < 80 * sc THEN 9
    ELSE IF 6 * sc <= t /\ t < 25 * sc THEN 10
    ELSE 0

\* C23: for every flow unit, a normalized rate inside one of the ten ranges
\* of the calibrated table gets the gear of that range.
C23_GearMatchesTable ==
    \A u \in 1..3 :
        LET g == TableGear(TempVal(Milli(floatVar[0]), u), Milli(floatVar[2]))
        IN g # 0 => GearFor(u) = g

\* volume / rate in milliseconds, for the volume vol in hundredths of a ml
\* and the rate in thousandths of the unit u
Duration(u, vol, rate) ==
    IF u = 1 THEN (vol * 10000000) \div rate
    ELSE IF u = 2 THEN ((vol * 6000000) \div rate) * 100
    ELSE (vol * 600000) \div rate

\* C24: for a time-based unit the targetTime a confirmed Set Rate leaves is
\* the volume divided by the rate in milliseconds, to within a thousandth
\* (the firmware computes in single precision).
C24_DurationIsVolumeOverRate ==
    \A presses \in UnitPresses, edited \in EditedRates, structVal \in StructVals,
       undef \in UndefLongs :
        LET st == SetRate(Cur, presses, edited, structVal, undef).st
            want == Duration(st.flowStatus[0], st.volFloat, Milli(st.floatVar[0]))
            diff == IF st.targetTime >= want THEN st.targetTime - want
                    ELSE want - st.targetTime
        IN (st.flowStatus[0] \in 1..3 /\ FloatNonZero(st.floatVar[0]) /\ st.volFloat >= 0)
              => diff <= want \div 1000 + 1

\* C30: a Set Volume session leaves rate, diameter, scale, flow unit and
\* direction as they were, in memory and in the EEPROM records that hold
\* them.
C30_VolumeEditFrame ==
    \A edited \in EditedVolumes, undef \in UndefLongs :
        LET st == SetVolume(Cur, edited, undef)
        IN /\ st.floatVar = floatVar
           /\ st.flowStatus = flowStatus
           /\ st.InfWith = InfWith
           /\ FloatAt(st.eeprom, floatVarAddr) = FloatAt(eeprom, floatVarAddr)
           /\ FloatAt(st.eeprom, floatVarAddr + 4) = FloatAt(eeprom, floatVarAddr + 4)
           /\ IntAt(st.eeprom, flowStatusAddr) = IntAt(eeprom, flowStatusAddr)
           /\ IntAt(st.eeprom, flowStatusAddr + 2) = IntAt(eeprom, flowStatusAddr + 2)

NotPoint(c) == c # Code(".")
DigitsOf(t) == SelectSeq(t, NotPoint)

\* C26: with one decimal point in the buffer, at the recorded index, a '*'
\* key at another index inside the text (not 0) puts the point at the cursor,
\* records the cursor as its index and keeps the other characters, in order.
C26_MovePointKeepsDigits ==
    LET text == CString(printVal, 0)
        e == LCDinput(CurEdit, Code("*"))
        after == CString(e.printVal, 0)
    IN (/\ printVal # <<>>
        /\ Points(text) = 1
        /\ decimalPos >= 0 /\ decimalPos < Len(text) /\ text[decimalPos + 1] = Code(".")
        /\ cursorPos > 0 /\ cursorPos < Len(text) /\ cursorPos # decimalPos)
       => /\ e.decimalPos = cursorPos
          /\ Len(after) > cursorPos /\ after[cursorPos + 1] = Code(".")
          /\ Points(after) = 1
          /\ DigitsOf(after) = DigitsOf(text)

\* C27: the cursor position is always within 0..printInt, the number of
\* digits LCDinput wraps the cursor at.
C27_CursorInRange ==
    printVal # <<>> => (cursorPos >= 0 /\ cursorPos <= printInt)

\* C28: the recorded decimal index is the index of the '.' in the buffer,
\* and it is -1 exactly when the buffer holds no '.'.
C28_IndexIsPoint ==
    LET text == CString(printVal, 0)
    IN printVal # <<>> =>
          IF decimalPos = -1 THEN Points(text) = 0
          ELSE /\ decimalPos >= 0 /\ decimalPos < Len(text)
               /\ text[decimalPos + 1] = Code(".")
               /\ Points(text) = 1

\* the Set screen of a menu item
ScreenOf(item) ==
    CASE item = 0 -> "SetRate" [] item = 1 -> "SetDiameter"
      [] item = 2 -> "SetInfWith" [] item = 3 -> "SetVolume"
      [] OTHER -> "none"

\* C29: the menu item is always in 0..3, the key 'B' at item 3 gives item 0,
\* the key 'C' at item 0 gives item 3, and a Set screen that has been called
\* is the screen of the current item.
C29_MenuItemInRange ==
    /\ MenuChoice \in 0..3
    /\ MenuChoice = 3 => Browse(MenuChoice, Code("B")) = 0
    /\ MenuChoice = 0 => Browse(MenuChoice, Code("C")) = 3
    /\ called # "none" => called = ScreenOf(MenuChoice)

\* Set Volume has been called from item 3
C29_Witness == ui = "loop" /\ called = "SetVolume" /\ MenuChoice = 3

\* C31: the direction a Set Inf/With session leaves is the direction it
\* found, flipped once for each 'B' or 'C' key pressed; with no such key it
\* is the direction it found.
C31_DirectionFlipsPerKey ==
    \A presses \in TogglePresses :
        SetInfWith(Cur, presses).InfWith = Toggle(InfWith, presses)

C33_SubscriptsInDimensions ==
    /\ \A t \in StatusSubscripts(Cur) :
          /\ t[1] \in 0..(nShields - 1)
          /\ t[2] \in 0..(nMotorsPerShield - 1)
          /\ t[3] \in 0..(statusFields - 1)
    /\ FlowSubscripts \subseteq 0..(flowStatusLen - 1)
    /\ FloatSubscripts \subseteq 0..(floatVarLen - 1)

\* C34: the four EEPROM records are disjoint: putting the channel status,
\* the calibration floats, the flow status or a newly entered target volume
\* leaves what is read back for each of the other three records unchanged.
C34_RecordsDisjoint ==
    /\ LET ee == PutMotorStatus(Cur).eeprom
       IN /\ GetFloatVar(ee) = GetFloatVar(eeprom)
          /\ GetFlowStatus(ee) = GetFlowStatus(eeprom)
          /\ GetVolFloat(ee) = GetVolFloat(eeprom)
    /\ LET ee == PutFloatVar(Cur).eeprom
       IN /\ GetMotorStatus(ee) = GetMotorStatus(eeprom)
          /\ GetFlowStatus(ee) = GetFlowStatus(eeprom)
          /\ GetVolFloat(ee) = GetVolFloat(eeprom)
    /\ LET ee == PutFlowStatus(Cur).eeprom
       IN /\ GetMotorStatus(ee) = GetMotorStatus(eeprom)
          /\ GetFloatVar(ee) = GetFloatVar(eeprom)
          /\ GetVolFloat(ee) = GetVolFloat(eeprom)
    /\ \A edited \in EditedVolumes \ {NoEdit} :
          LET ee == PutVolFloat([Cur EXCEPT !.volFloat = Int16(edited)]).eeprom
          IN /\ GetMotorStatus(ee) = GetMotorStatus(eeprom)
             /\ GetFloatVar(ee) = GetFloatVar(eeprom)
             /\ GetFlowStatus(ee) = GetFlowStatus(eeprom)

=============================================================================
